---- MODULE Spec2Model ----
(***************************************************************************)
(* A model of the project-snapshot builder of aias:                        *)
(*   src/src/file_management.py  (ignore parser, path matcher, tree        *)
(*                                renderer, code-block concatenator,       *)
(*                                snapshot save)                           *)
(*   src/aias.py                 (command-line flow)                       *)
(*   src/src/chat_gpt.py         (the chat turn's use of the snapshots)    *)
(*                                                                         *)
(* Text is modelled character by character: a Python str is a sequence of  *)
(* one-character strings.  The four box-drawing characters of the tree     *)
(* renderer are written with ASCII stand-ins, one character each:          *)
(*   U+2502 (vertical bar)      as "|"                                     *)
(*   U+251C (tee)               as "+"                                     *)
(*   U+2500 (horizontal bar)    as "-"                                     *)
(*   U+2514 (corner)            as "L"                                     *)
(* and the grave accent of the Markdown fence is written as "~".           *)
(***************************************************************************)
EXTENDS Naturals, Sequences, FiniteSets

VARIABLES
    fs,          \* the filesystem below the current working directory
    pc,          \* position of the running call
    call,        \* the running call: its name and arguments
    ignore_patterns, \* generate_tree_structure's local, set by parse_gitignore
    walk,        \* os.walk's pending directories (top-down, first is next)
    tree,        \* generate_tree_structure's local list of lines
    shown,       \* history: for each line of tree, the entry it renders
    code_blocks, \* generate_code_blocks' local list of blocks
    blocked,     \* history: for each block, the file it was made from
    result,      \* what the finished call returned, or the error it raised
    saved,       \* history: the snapshots the running program has saved
    out,         \* what the command line printed
    chats        \* the chat calls made, each with the snapshots it was given

vars == <<fs, pc, call, ignore_patterns, walk, tree, shown, code_blocks,
          blocked, result, saved, out, chats>>

(***************************************************************************)
(* Bounds of the model.                                                    *)
(***************************************************************************)
MaxFiles == 2
MaxIgnoreLines == 1
MaxLines == 2
MaxLineLen == 2
MaxPatterns == 2

(***************************************************************************)
(* Python's str operations, as the code uses them.                         *)
(***************************************************************************)
Whitespace == {" ", "\n", "\t"}

RECURSIVE lstrip(_)
lstrip(s) ==
    IF s # <<>> /\ Head(s) \in Whitespace THEN lstrip(Tail(s)) ELSE s

RECURSIVE rstrip(_)
rstrip(s) ==
    IF s # <<>> /\ s[Len(s)] \in Whitespace
    THEN rstrip(SubSeq(s, 1, Len(s) - 1))
    ELSE s

\* str.strip()
strip(s) == rstrip(lstrip(s))

\* str.startswith(p)
startswith(s, p) == Len(p) <= Len(s) /\ SubSeq(s, 1, Len(p)) = p

\* str.endswith(p)
endswith(s, p) ==
    Len(p) <= Len(s) /\ SubSeq(s, Len(s) - Len(p) + 1, Len(s)) = p

\* str.count(c) for a one-character c
RECURSIVE count(_, _)
count(s, c) ==
    IF s = <<>> THEN 0
    ELSE (IF Head(s) = c THEN 1 ELSE 0) + count(Tail(s), c)

\* str.replace(old, ''): every non-overlapping occurrence of old, scanning
\* from the left, is removed (old is never empty here).
RECURSIVE replace_empty(_, _)
replace_empty(s, old) ==
    IF s = <<>> THEN <<>>
    ELSE IF startswith(s, old)
         THEN replace_empty(SubSeq(s, Len(old) + 1, Len(s)), old)
         ELSE <<Head(s)>> \o replace_empty(Tail(s), old)

\* sep.join(parts)
RECURSIVE join(_, _)
join(sep, parts) ==
    IF parts = <<>> THEN <<>>
    ELSE IF Len(parts) = 1 THEN parts[1]
    ELSE parts[1] \o sep \o join(sep, Tail(parts))

\* s * n
RECURSIVE repeat(_, _)
repeat(s, n) == IF n = 0 THEN <<>> ELSE s \o repeat(s, n - 1)

\* s.split("/")
RECURSIVE split_sep(_)
split_sep(s) ==
    IF \A i \in 1..Len(s) : s[i] # "/" THEN <<s>>
    ELSE LET i == CHOOSE k \in 1..Len(s) :
                      s[k] = "/" /\ \A j \in 1..(k - 1) : s[j] # "/"
         IN  <<SubSeq(s, 1, i - 1)>> \o split_sep(SubSeq(s, i + 1, Len(s)))

RECURSIVE SelectParts(_)
SelectParts(parts) ==
    IF parts = <<>> THEN <<>>
    ELSE IF Head(parts) \in {<<>>, <<".">>} THEN SelectParts(Tail(parts))
    ELSE <<Head(parts)>> \o SelectParts(Tail(parts))

(***************************************************************************)
(* os.path, for the relative paths without ".." that the program makes.    *)
(***************************************************************************)
os_sep == <<"/">>

\* os.path.join(a, b)
os_path_join(a, b) ==
    IF startswith(b, os_sep) THEN b
    ELSE IF a = <<>> \/ endswith(a, os_sep) THEN a \o b
    ELSE a \o os_sep \o b

\* os.path.basename(p): what follows the last separator
os_path_basename(p) == LET parts == split_sep(p) IN parts[Len(parts)]

\* os.path.normpath(p) of a relative path: empty and "." components dropped
os_path_normpath(p) ==
    LET parts == SelectParts(split_sep(p))
    IN  IF parts = <<>> THEN <<".">> ELSE join(os_sep, parts)

\* os.path.relpath(path, start="."): the path relative to the current
\* working directory, normalised
os_path_relpath(path) == os_path_normpath(path)

\* the directory that holds the entry at normalised path p
ParentOf(p) ==
    LET parts == split_sep(p)
    IN  IF Len(parts) = 1 THEN <<".">>
        ELSE join(os_sep, SubSeq(parts, 1, Len(parts) - 1))

\* the number of path components of normalised path p below the
\* current working directory
DepthOf(p) == IF p = <<".">> THEN 0 ELSE count(p, "/") + 1

(***************************************************************************)
(* Names and texts that occur in the model, spelled out as characters.     *)
(***************************************************************************)
None == <<"None">>           \* Python's None: no text is equal to it
Dot == <<".">>               \* the default directory '.'
GITIGNORE == <<".", "g", "i", "t", "i", "g", "n", "o", "r", "e">>
DATA_DIR == <<".", "/", "d", "a", "t", "a">>
TREE_FILE ==
    DATA_DIR \o <<"/", "t", "r", "e", "e", "_", "s", "t", "r", "u", "c", "t",
                  "u", "r", "e", ".", "m", "d">>
CODE_FILE ==
    DATA_DIR \o <<"/", "c", "o", "d", "e", "_", "b", "l", "o", "c", "k", "s",
                  ".", "m", "d">>
PY_SUFFIX == <<".", "p", "y">>
a_py == <<"a", ".", "p", "y">>
s_py == <<"s", ".", "p", "y">>
t_md == <<"t", ".", "m", "d">>

(***************************************************************************)
(* The filesystem: fs.dirs maps each existing directory (its normalised    *)
(* path) to its listing, in the order the operating system enumerates it;  *)
(* fs.files maps each existing file to its text.                           *)
(***************************************************************************)
IsDir(p) == os_path_normpath(p) \in DOMAIN fs.dirs
IsFile(p) == os_path_normpath(p) \in DOMAIN fs.files

\* f @@ (k :> v) without the TLC module
Extend(f, k, v) == [x \in (DOMAIN f) \cup {k} |-> IF x = k THEN v ELSE f[x]]

\* os.makedirs(p) for a p whose parent exists
os_makedirs(f, p) ==
    LET n == os_path_normpath(p)
        par == ParentOf(n)
    IN  [f EXCEPT !.dirs =
            Extend([@ EXCEPT ![par].dirs = Append(@, os_path_basename(n))],
                   n, [dirs |-> <<>>, files |-> <<>>])]

\* the file opened for appending: an existing text is kept
write_file_appending(f, p, text) ==
    LET n == os_path_normpath(p)
        par == ParentOf(n)
    IN  IF n \in DOMAIN f.files
        THEN [f EXCEPT !.files[n] = @ \o text]
        ELSE [dirs |-> [f.dirs EXCEPT ![par].files =
                                          Append(@, os_path_basename(n))],
              files |-> Extend(f.files, n, text)]

\* open(p, "w") followed by write(text): the file is created or truncated
write_file(f, p, text) ==
    LET n == os_path_normpath(p)
        par == ParentOf(n)
    IN  IF n \in DOMAIN f.files
        THEN [f EXCEPT !.files[n] = text]
        ELSE [dirs |-> [f.dirs EXCEPT ![par].files =
                                          Append(@, os_path_basename(n))],
              files |-> Extend(f.files, n, text)]

\* open(p, "w") raises FileNotFoundError when p's directory is missing
CanOpenForWrite(f, p) ==
    /\ ParentOf(os_path_normpath(p)) \in DOMAIN f.dirs
    /\ os_path_normpath(p) \notin DOMAIN f.dirs

(***************************************************************************)
(* parse_gitignore                                                         *)
(***************************************************************************)
\* f.readlines(): the text cut after each newline
RECURSIVE readlines(_)
readlines(text) ==
    IF text = <<>> THEN <<>>
    ELSE IF \A i \in 1..Len(text) : text[i] # "\n" THEN <<text>>
    ELSE LET i == CHOOSE k \in 1..Len(text) :
                      text[k] = "\n" /\ \A j \in 1..(k - 1) : text[j] # "\n"
         IN  <<SubSeq(text, 1, i)>> \o readlines(SubSeq(text, i + 1, Len(text)))

\* the filter of the list comprehension
keeps_line(line) == strip(line) # <<>> /\ ~startswith(line, <<"#">>)

RECURSIVE parse_lines(_)
parse_lines(lines) ==
    IF lines = <<>> THEN <<>>
    ELSE (IF keeps_line(Head(lines)) THEN <<strip(Head(lines))>> ELSE <<>>)
         \o parse_lines(Tail(lines))

\* parse_gitignore(ignore_file) when the file can be opened
parse_gitignore(ignore_file) ==
    parse_lines(readlines(fs.files[os_path_normpath(ignore_file)]))

(***************************************************************************)
(* is_ignored: fnmatch.translate, then re.match                            *)
(***************************************************************************)
\* fnmatch.translate(pattern), for patterns without "[": the regular
\* expression (?s:...)\Z as a sequence of items
RECURSIVE fnmatch_translate(_)
fnmatch_translate(pattern) ==
    IF pattern = <<>> THEN <<[re |-> "end"]>>
    ELSE (CASE Head(pattern) = "*" -> <<[re |-> "any_star"]>>
            [] Head(pattern) = "?" -> <<[re |-> "any"]>>
            [] OTHER -> <<[re |-> "lit", c |-> Head(pattern)]>>)
         \o fnmatch_translate(Tail(pattern))

\* re.match(regex, string): a match that starts at the string's start
RECURSIVE re_match(_, _)
re_match(regex, string) ==
    IF regex = <<>> THEN TRUE
    ELSE CASE Head(regex).re = "end" ->
                string = <<>> /\ re_match(Tail(regex), string)
           [] Head(regex).re = "any_star" ->
                \/ re_match(Tail(regex), string)
                \/ string # <<>> /\ re_match(regex, Tail(string))
           [] Head(regex).re = "any" ->
                string # <<>> /\ re_match(Tail(regex), Tail(string))
           [] OTHER ->
                /\ string # <<>>
                /\ Head(string) = Head(regex).c
                /\ re_match(Tail(regex), Tail(string))

\* the path the patterns are matched against
relative_path_of(path) == os_path_relpath(path)

\* the condition of the loop body
pattern_hits(pattern, relative_path) ==
    LET regex_pattern == fnmatch_translate(pattern)
    IN  \/ re_match(regex_pattern, relative_path)
        \/ re_match(regex_pattern, os_path_join(relative_path, <<>>))

RECURSIVE is_ignored_loop(_, _)
is_ignored_loop(relative_path, patterns) ==
    IF patterns = <<>> THEN FALSE
    ELSE IF pattern_hits(Head(patterns), relative_path) THEN TRUE
    ELSE is_ignored_loop(relative_path, Tail(patterns))

is_ignored(path, patterns) ==
    is_ignored_loop(relative_path_of(path), patterns)

(***************************************************************************)
(* generate_tree_structure                                                 *)
(***************************************************************************)
VBAR_INDENT == <<"|", " ", " ", " ">>      \* U+2502 and three spaces
TEE == <<"+", "-", "-", " ">>              \* U+251C U+2500 U+2500 space
CORNER == <<"L", "-", "-", " ">>           \* U+2514 U+2500 U+2500 space

\* level = root.replace(directory, '').count(os.sep)
level_of(root, directory) == count(replace_empty(root, directory), "/")

\* the line of the visited directory, if it gets one
dir_lines(root, level, patterns) ==
    IF level = 0 THEN <<os_path_basename(root) \o <<"/">> >>
    ELSE LET indent == repeat(VBAR_INDENT, level - 1) \o TEE
         IN  IF ~is_ignored(root, patterns)
             THEN <<indent \o os_path_basename(root) \o <<"/">> >>
             ELSE <<>>

\* [n for n in names if not is_ignored(os.path.join(root, n), patterns)]
RECURSIVE not_ignored(_, _, _)
not_ignored(root, names, patterns) ==
    IF names = <<>> THEN <<>>
    ELSE (IF ~is_ignored(os_path_join(root, Head(names)), patterns)
          THEN <<Head(names)>> ELSE <<>>)
         \o not_ignored(root, Tail(names), patterns)

\* the pruning forgotten: every subdirectory is walked
kept_dirs_unpruned(root, dirs, patterns) == dirs

\* dirs[:] after the pruning of the visited directory's subdirectories
kept_dirs(root, dirs, patterns) ==
    IF patterns # <<>> THEN not_ignored(root, dirs, patterns) ELSE dirs

\* files after the filtering of the visited directory's files
kept_files(root, files, patterns) ==
    IF patterns # <<>> THEN not_ignored(root, files, patterns) ELSE files

\* the last index taken to be n instead of n - 1
connector_off_by_one(index, n) == IF index = n THEN CORNER ELSE TEE

\* the connector of the file at 0-based index among n listed files
connector(index, n) == IF index = n - 1 THEN CORNER ELSE TEE

\* the lines of the enumerate loop over the kept files
file_lines(files, level) ==
    [i \in 1..Len(files) |->
        repeat(VBAR_INDENT, level) \o connector(i - 1, Len(files)) \o files[i]]

\* the roots os.walk visits after root, for root's kept subdirectories
RECURSIVE sub_roots(_, _)
sub_roots(root, dirs) ==
    IF dirs = <<>> THEN <<>>
    ELSE <<os_path_join(root, Head(dirs))>> \o sub_roots(root, Tail(dirs))

Ok(v) == [status |-> "ok", value |-> v]
Raised(e) == [status |-> "raised", value |-> e]
NoResult == [status |-> "none", value |-> None]
FileNotFoundError == <<"FileNotFoundError">>

\* lines 55-59: the locals are set up and the ignore file is parsed; open()
\* raises when the ignore file is missing
TreeBegin ==
    /\ pc = "tree_begin"
    /\ tree' = <<>>
    /\ shown' = <<>>
    /\ IF call.gitignore # None /\ call.gitignore # <<>>
       THEN IF IsFile(call.gitignore)
            THEN /\ ignore_patterns' = parse_gitignore(call.gitignore)
                 /\ pc' = "tree_walk"
                 /\ result' = NoResult
            ELSE /\ ignore_patterns' = <<>>
                 /\ pc' = "raised"
                 /\ result' = Raised(FileNotFoundError)
       ELSE /\ ignore_patterns' = <<>>
            /\ pc' = "tree_walk"
            /\ result' = NoResult
    /\ walk' = IF IsDir(call.directory) THEN <<call.directory>> ELSE <<>>
    /\ UNCHANGED <<fs, call, code_blocks, blocked, saved, out, chats>>

\* lines 61-81: one iteration of the loop over os.walk(directory)
TreeVisit ==
    /\ pc = "tree_walk"
    /\ walk # <<>>
    /\ LET root == Head(walk)
           listing == fs.dirs[os_path_normpath(root)]
           level == level_of(root, call.directory)
           dline == dir_lines(root, level, ignore_patterns)
           dirs == kept_dirs(root, listing.dirs, ignore_patterns)
           files == kept_files(root, listing.files, ignore_patterns)
       IN  /\ tree' = tree \o dline \o file_lines(files, level)
           /\ shown' = shown
                  \o [i \in 1..Len(dline) |->
                        [entry |-> os_path_normpath(root), kind |-> "dir",
                         level |-> level]]
                  \o [i \in 1..Len(files) |->
                        [entry |-> os_path_normpath(os_path_join(root, files[i])),
                         kind |-> "file", level |-> level]]
           /\ walk' = sub_roots(root, dirs) \o Tail(walk)
    /\ UNCHANGED <<fs, pc, call, ignore_patterns, code_blocks, blocked,
                   result, saved, out, chats>>

\* line 83: the walk is over and the lines are joined
TreeEnd ==
    /\ pc = "tree_walk"
    /\ walk = <<>>
    /\ result' = Ok(join(<<"\n">>, tree))
    /\ pc' = IF call.op = "generate_tree_structure" THEN "done"
             ELSE "tree_write"
    /\ UNCHANGED <<fs, call, ignore_patterns, walk, tree, shown, code_blocks,
                   blocked, saved, out, chats>>

(***************************************************************************)
(* The directory trees and calls the renderer is run on.                   *)
(***************************************************************************)
b_dir == <<"b">>
c_dir == <<"c">>
FileNames == {a_py, s_py, t_md}

\* the listings of at most MaxFiles distinct files, in any order
FileLists ==
    UNION {{l \in [1..n -> FileNames] :
               \A i, j \in 1..n : l[i] = l[j] => i = j} : n \in 0..MaxFiles}

\* every source file holds its own path as a one-line text
TextOf(path) == path \o <<"\n">>

FilesIn(d, names) ==
    {os_path_normpath(os_path_join(d, names[i])) : i \in 1..Len(names)}

\* b/c below the working directory, or b and c side by side
Shapes == {"chain", "siblings"}

ThirdDir(shape) == IF shape = "chain" THEN <<"b", "/", "c">> ELSE c_dir

\* a project: the files of the working directory and of b vary, the third
\* directory holds a.py; gitignore is the ignore file's text, or None
Project(shape, topFiles, bFiles, gitignore) ==
    LET third == ThirdDir(shape)
        top == (IF gitignore = None THEN <<>> ELSE <<GITIGNORE>>) \o topFiles
        sources == FilesIn(Dot, topFiles) \cup FilesIn(b_dir, bFiles)
                   \cup FilesIn(third, <<a_py>>)
    IN  [dirs |->
            [d \in {Dot, b_dir, third} |->
                IF d = Dot
                THEN [dirs |-> IF shape = "chain" THEN <<b_dir>>
                               ELSE <<b_dir, c_dir>>,
                      files |-> top]
                ELSE IF d = b_dir
                THEN [dirs |-> IF shape = "chain" THEN <<c_dir>> ELSE <<>>,
                      files |-> bFiles]
                ELSE [dirs |-> <<>>, files |-> <<a_py>>]],
         files |->
            [f \in sources \cup (IF gitignore = None THEN {} ELSE {GITIGNORE})
                |-> IF f = GITIGNORE /\ gitignore # None THEN gitignore
                    ELSE TextOf(f)]]

\* the lines the projects' ignore files are made of
IgnoreLines ==
    { <<"s", ".", "p", "y", "\n">>, <<"b", "\n">>, <<"*", ".", "p", "y", "\n">>,
      <<"#", " ", "b", "\n">> }

RECURSIVE concat(_)
concat(parts) ==
    IF parts = <<>> THEN <<>> ELSE Head(parts) \o concat(Tail(parts))

\* the ignore files: none at all, or at most MaxIgnoreLines lines
IgnoreTexts ==
    {None} \cup
    UNION {{concat(ls) : ls \in [1..n -> IgnoreLines]} : n \in 0..MaxIgnoreLines}

Projects ==
    {Project(sh, tf, bf, g) :
        sh \in Shapes, tf \in FileLists, bf \in FileLists, g \in IgnoreTexts}

\* the walk roots: the working directory, b, and b with a trailing separator
Roots == {Dot, b_dir, <<"b", "/">>}

NoCall ==
    [op |-> "none", directory |-> None, gitignore |-> None, content |-> None,
     file_path |-> None, path |-> None, patterns |-> <<>>, lines |-> None,
     reindex |-> FALSE, output |-> FALSE]

TreeCalls ==
    {[NoCall EXCEPT !.op = "generate_tree_structure", !.directory = d,
                    !.gitignore = GITIGNORE] : d \in Roots}
    \cup {[NoCall EXCEPT !.op = "generate_tree_structure", !.directory = Dot,
                         !.gitignore = None]}

Idle ==
    /\ ignore_patterns = <<>>
    /\ walk = <<>>
    /\ tree = <<>>
    /\ shown = <<>>
    /\ code_blocks = <<>>
    /\ blocked = <<>>
    /\ result = NoResult
    /\ saved = <<>>
    /\ out = <<>>
    /\ chats = <<>>

InitTree ==
    /\ fs \in Projects
    /\ call \in TreeCalls
    /\ pc = "tree_begin"
    /\ Idle

NextTree == TreeBegin \/ TreeVisit \/ TreeEnd

\* generate_tree_structure(directory, gitignore) on every project
SpecTree == InitTree /\ [][NextTree]_vars

(***************************************************************************)
(* What the claims about the tree renderer speak of.                       *)
(***************************************************************************)
TreeRoot == os_path_normpath(call.directory)

\* e lies strictly below directory d (both normalised)
Below(e, d) ==
    e # d /\ (d = Dot \/ startswith(e, d \o os_sep))

\* the files and directories of the tree below the walk root
Entries ==
    {e \in (DOMAIN fs.dirs) \cup (DOMAIN fs.files) : Below(e, TreeRoot)}

\* is_ignored reports e as matched by some pattern of the parsed list
Matched(e) == is_ignored(e, ignore_patterns)

\* e lies beneath a directory of the tree that is matched
BeneathMatched(e) ==
    \E d \in Entries : d \in DOMAIN fs.dirs /\ Below(e, d) /\ Matched(d)

\* how many lines of the output render e
TimesShown(e) == Cardinality({i \in 1..Len(shown) : shown[i].entry = e})

\* the label a line for e ends with
LabelOf(e, kind) ==
    os_path_basename(e) \o (IF kind = "dir" THEN <<"/">> ELSE <<>>)

TreeReturned ==
    call.op = "generate_tree_structure" /\ pc = "done" /\ IsDir(call.directory)

\* every line of the output is the line of the entry recorded for it
LinesAreEntries ==
    /\ Len(tree) = Len(shown)
    /\ \A i \in 1..Len(shown) :
          \/ shown[i].entry = TreeRoot
          \/ endswith(tree[i], LabelOf(shown[i].entry, shown[i].kind))

\* C1 as stated: no matched entry is rendered, and every entry that is not
\* matched is rendered exactly once, also beneath a matched directory.
C1_EveryUnmatchedEntryOnce ==
    TreeReturned =>
        /\ LinesAreEntries
        /\ \A e \in Entries :
              TimesShown(e) = IF Matched(e) THEN 0 ELSE 1

\* C1 as amended: an entry below the root is rendered exactly once when
\* neither it nor a directory above it (below the root) is matched, and not
\* at all otherwise; the root itself is rendered once.
C1_UnprunedEntriesOnce ==
    TreeReturned =>
        /\ LinesAreEntries
        /\ TimesShown(TreeRoot) = 1
        /\ \A e \in Entries :
              TimesShown(e) = IF Matched(e) \/ BeneathMatched(e) THEN 0 ELSE 1

\* C1's case: a finished render that left out a matched entry, left out an
\* unmatched entry beneath a matched directory, and rendered an unmatched file
C1_Witness ==
    /\ TreeReturned
    /\ \E e \in Entries : Matched(e) /\ TimesShown(e) = 0
    /\ \E e \in Entries :
          ~Matched(e) /\ BeneathMatched(e) /\ TimesShown(e) = 0
    /\ \E e \in Entries :
          e \in DOMAIN fs.files /\ ~Matched(e) /\ TimesShown(e) = 1

\* C4 as stated: with no ignore file at the configured path the renderer
\* completes without error and renders every directory and file.
C4_NoIgnoreFileRendersAll ==
    (/\ call.op = "generate_tree_structure"
     /\ call.gitignore = GITIGNORE
     /\ ~IsFile(GITIGNORE)
     /\ pc \notin {"tree_begin", "tree_walk"})
    => /\ pc = "done"
       /\ result.status = "ok"
       /\ \A e \in Entries : TimesShown(e) = 1

\* the lines of the files of directory d, in output order
FileLinesOf(d) ==
    {i \in 1..Len(shown) :
        shown[i].kind = "file" /\ ParentOf(shown[i].entry) = d}

\* the four characters before the label of line i
ConnectorAt(i) ==
    LET n == Len(os_path_basename(shown[i].entry))
        m == Len(tree[i])
    IN  SubSeq(tree[i], m - n - 3, m - n)

\* C7: among the file lines of each visited directory the last one has the
\* corner connector and every earlier one the tee; so the directory has
\* exactly one corner line, its last.
C7_LastFileGetsCorner ==
    /\ Len(tree) = Len(shown)
    /\ \A i \in 1..Len(shown) :
          shown[i].kind = "file" =>
             LET mine == FileLinesOf(ParentOf(shown[i].entry))
             IN  /\ endswith(tree[i], os_path_basename(shown[i].entry))
                 /\ ConnectorAt(i) =
                      IF \A j \in mine : j <= i THEN CORNER ELSE TEE
                 /\ Cardinality({j \in mine : ConnectorAt(j) = CORNER}) = 1

\* the listing's last file is matched and is not rendered
LastListedIsIgnored(d) ==
    LET files == fs.dirs[d].files
    IN  /\ files # <<>>
        /\ Matched(os_path_join(d, files[Len(files)]))
        /\ TimesShown(os_path_normpath(os_path_join(d, files[Len(files)]))) = 0

\* C7's case: a finished render of a directory with two rendered files whose
\* listing ended in an ignored file
C7_Witness ==
    /\ TreeReturned
    /\ \E d \in DOMAIN fs.dirs :
          /\ LastListedIsIgnored(d)
          /\ Cardinality(FileLinesOf(d)) = 2
          /\ \E i \in FileLinesOf(d) : ConnectorAt(i) = CORNER
          /\ \E i \in FileLinesOf(d) : ConnectorAt(i) = TEE

\* the distance of entry e from the walk root
DistanceFromRoot(e) == DepthOf(e) - DepthOf(TreeRoot)

\* C10 as stated: the level computed for a visited directory is its distance
\* from the walk root, the root is rendered as <basename>/ and a directory
\* at depth d >= 1 with d-1 bars and a tee, for every root path string.
C10_LevelIsDistance ==
    \A i \in 1..Len(shown) :
        shown[i].kind = "dir" =>
           LET d == DistanceFromRoot(shown[i].entry)
           IN  /\ shown[i].level = d
               /\ tree[i] =
                    IF d = 0 THEN LabelOf(TreeRoot, "dir")
                    ELSE repeat(VBAR_INDENT, d - 1) \o TEE
                         \o LabelOf(shown[i].entry, "dir")

(***************************************************************************)
(* parse_gitignore on every small ignore file.                             *)
(***************************************************************************)
LineChars == {" ", "#", "a"}

\* the lines of at most MaxLineLen characters, each ended by a newline
ParseLines ==
    UNION {{l \o <<"\n">> : l \in [1..n -> LineChars]} : n \in 0..MaxLineLen}

\* the ignore files of at most MaxLines lines, as lists of lines
ParseInputs == UNION {[1..n -> ParseLines] : n \in 0..MaxLines}

\* a working directory that holds only the ignore file
OnlyIgnoreFile(text) ==
    [dirs |-> [d \in {Dot} |-> [dirs |-> <<>>, files |-> <<GITIGNORE>>]],
     files |-> [f \in {GITIGNORE} |-> text]]

InitParse ==
    /\ \E ls \in ParseInputs :
          /\ fs = OnlyIgnoreFile(concat(ls))
          /\ call = [NoCall EXCEPT !.op = "parse_gitignore",
                                   !.gitignore = GITIGNORE, !.lines = ls]
    /\ pc = "parse_begin"
    /\ Idle

\* lines 37-42: the whole of parse_gitignore(ignore_file)
ParseCall ==
    /\ pc = "parse_begin"
    /\ IF IsFile(call.gitignore)
       THEN /\ result' = Ok(parse_gitignore(call.gitignore))
            /\ pc' = "done"
       ELSE /\ result' = Raised(FileNotFoundError)
            /\ pc' = "raised"
    /\ UNCHANGED <<fs, call, ignore_patterns, walk, tree, shown, code_blocks,
                   blocked, saved, out, chats>>

NextParse == ParseCall

SpecParse == InitParse /\ [][NextParse]_vars

\* a comment line: its first character that is not whitespace is "#"
IsCommentLine(line) == startswith(strip(line), <<"#">>)

\* the lines that are neither blank nor comments, stripped, in order
RECURSIVE PatternLines(_)
PatternLines(lines) ==
    IF lines = <<>> THEN <<>>
    ELSE (IF strip(Head(lines)) # <<>> /\ ~IsCommentLine(Head(lines))
          THEN <<strip(Head(lines))>> ELSE <<>>)
         \o PatternLines(Tail(lines))

\* C5 as stated: parse_gitignore returns exactly the lines that are not blank
\* and not comments, stripped, in order, duplicates kept; no returned
\* pattern is empty and none begins with "#".
C5_ParseKeepsPatternLines ==
    (call.op = "parse_gitignore" /\ pc = "done") =>
        /\ result.value = PatternLines(call.lines)
        /\ \A i \in 1..Len(result.value) :
              /\ result.value[i] # <<>>
              /\ ~startswith(result.value[i], <<"#">>)

(***************************************************************************)
(* is_ignored on the paths a walk makes, for every walk root.              *)
(***************************************************************************)
MatchPatterns ==
    { <<"c">>, <<"b">>, <<"*", ".", "p", "y">>, <<"c", "/">>, <<"?">>,
      <<"b", "/", "*">> }

\* the pattern lists of at most MaxPatterns patterns
PatternLists == UNION {[1..n -> MatchPatterns] : n \in 0..MaxPatterns}

\* the paths os.walk and the renderer form below a root: the root, an entry
\* of the root, and an entry of a subdirectory
PathsBelow(root) ==
    {root, os_path_join(root, c_dir), os_path_join(root, a_py),
     os_path_join(os_path_join(root, c_dir), a_py)}

InitMatch ==
    /\ \E root \in Roots, ps \in PatternLists :
          \E path \in PathsBelow(root) :
             call = [NoCall EXCEPT !.op = "is_ignored", !.directory = root,
                                   !.path = path, !.patterns = ps]
    /\ fs = OnlyIgnoreFile(<<>>)
    /\ pc = "match_begin"
    /\ Idle

\* lines 45-51: the whole of is_ignored(path, ignore_patterns)
MatchCall ==
    /\ pc = "match_begin"
    /\ result' = Ok(is_ignored(call.path, call.patterns))
    /\ pc' = "done"
    /\ UNCHANGED <<fs, call, ignore_patterns, walk, tree, shown, code_blocks,
                   blocked, saved, out, chats>>

NextMatch == MatchCall

SpecMatch == InitMatch /\ [][NextMatch]_vars

\* shell-glob matching of a whole string: "*" any run, "?" any character
RECURSIVE GlobMatches(_, _)
GlobMatches(pattern, string) ==
    IF pattern = <<>> THEN string = <<>>
    ELSE IF Head(pattern) = "*"
         THEN \E k \in 0..Len(string) :
                 GlobMatches(Tail(pattern), SubSeq(string, k + 1, Len(string)))
    ELSE /\ string # <<>>
         /\ Head(pattern) \in {"?", Head(string)}
         /\ GlobMatches(Tail(pattern), Tail(string))

\* path taken relative to the traversal root
RelativeToRoot(path, root) ==
    LET p == os_path_normpath(path)
        r == os_path_normpath(root)
    IN  IF r = Dot THEN p
        ELSE IF p = r THEN Dot
        ELSE SubSeq(p, Len(r) + 2, Len(p))

\* C6 as stated: is_ignored is true exactly when some pattern glob-matches
\* the path relative to the traversal root, or that path with a trailing
\* separator, whatever the root and the order of the patterns.
C6_MatchesRootRelativePath ==
    (call.op = "is_ignored" /\ pc = "done") =>
        LET rel == RelativeToRoot(call.path, call.directory)
        IN  result.value =
               \E i \in 1..Len(call.patterns) :
                  \/ GlobMatches(call.patterns[i], rel)
                  \/ GlobMatches(call.patterns[i], rel \o os_sep)

(***************************************************************************)
(* generate_code_blocks                                                    *)
(***************************************************************************)
FILE_HEADER == <<"#", "#", " ", "F", "i", "l", "e", ":", " ">>
FENCE == <<"~", "~", "~">>                \* three grave accents
FENCE_PYTHON == FENCE \o <<"p", "y", "t", "h", "o", "n">>

\* the test of line 10
is_source(file) == endswith(file, PY_SUFFIX)

\* lines 15-21: "\n".join([header, fence, content, fence, ""])
block_of(file_path, file_content) ==
    join(<<"\n">>, <<FILE_HEADER \o file_path, FENCE_PYTHON, file_content,
                     FENCE, <<>> >>)

\* the tree renderer's ignore filter applied to the concatenator as well
source_files_filtered(root, files) ==
    LET patterns == IF IsFile(GITIGNORE) THEN parse_gitignore(GITIGNORE)
                    ELSE <<>>
        kept == not_ignored(root, files, patterns)
    IN  [i \in 1..Len(SelectSeq(kept, is_source)) |->
            os_path_join(root, SelectSeq(kept, is_source)[i])]

\* the files of one visited directory that get a block
RECURSIVE source_files(_, _)
source_files(root, files) ==
    IF files = <<>> THEN <<>>
    ELSE (IF is_source(Head(files))
          THEN <<os_path_join(root, Head(files))>> ELSE <<>>)
         \o source_files(root, Tail(files))

\* line 7, and the start of os.walk(directory)
CodeBegin ==
    /\ pc = "code_begin"
    /\ code_blocks' = <<>>
    /\ blocked' = <<>>
    /\ walk' = IF IsDir(call.directory) THEN <<call.directory>> ELSE <<>>
    /\ pc' = "code_walk"
    /\ UNCHANGED <<fs, call, ignore_patterns, tree, shown, result, saved,
                   out, chats>>

\* lines 8-22: one iteration of the loop over os.walk(directory)
CodeVisit ==
    /\ pc = "code_walk"
    /\ walk # <<>>
    /\ LET root == Head(walk)
           listing == fs.dirs[os_path_normpath(root)]
           paths == source_files(root, listing.files)
       IN  /\ code_blocks' = code_blocks
                  \o [i \in 1..Len(paths) |->
                        block_of(paths[i], fs.files[os_path_normpath(paths[i])])]
           /\ blocked' = blocked
                  \o [i \in 1..Len(paths) |-> os_path_normpath(paths[i])]
           /\ walk' = sub_roots(root, listing.dirs) \o Tail(walk)
    /\ UNCHANGED <<fs, pc, call, ignore_patterns, tree, shown, result, saved,
                   out, chats>>

\* line 23: the walk is over and the blocks are joined
CodeEnd ==
    /\ pc = "code_walk"
    /\ walk = <<>>
    /\ result' = Ok(join(<<"\n">>, code_blocks))
    /\ pc' = IF call.op = "generate_code_blocks" THEN "done"
             ELSE "code_write"
    /\ UNCHANGED <<fs, call, ignore_patterns, walk, tree, shown, code_blocks,
                   blocked, saved, out, chats>>

CodeCalls ==
    {[NoCall EXCEPT !.op = "generate_code_blocks", !.directory = d] :
        d \in Roots}

InitCode ==
    /\ fs \in Projects
    /\ call \in CodeCalls
    /\ pc = "code_begin"
    /\ Idle

NextCode == CodeBegin \/ CodeVisit \/ CodeEnd

\* generate_code_blocks(directory) on every project
SpecCode == InitCode /\ [][NextCode]_vars

\* the files below directory d in os.walk's top-down order: d's own files
\* in listing order, then those of each subdirectory in listing order
RECURSIVE WalkedFiles(_)
WalkedFiles(d) ==
    LET own == [i \in 1..Len(fs.dirs[d].files) |->
                   os_path_normpath(os_path_join(d, fs.dirs[d].files[i]))]
        subs == [i \in 1..Len(fs.dirs[d].dirs) |->
                   WalkedFiles(os_path_normpath(
                                   os_path_join(d, fs.dirs[d].dirs[i])))]
    IN  own \o concat(subs)

RECURSIVE OnlySources(_)
OnlySources(files) ==
    IF files = <<>> THEN <<>>
    ELSE (IF endswith(Head(files), PY_SUFFIX) THEN <<Head(files)>> ELSE <<>>)
         \o OnlySources(Tail(files))

\* the patterns of the project's ignore file, none when there is no file
ProjectPatterns ==
    IF IsFile(GITIGNORE) THEN parse_gitignore(GITIGNORE) ELSE <<>>

\* block i names the file it was made from and holds that file's text
\* between the fences
BlockHoldsFile(i) ==
    LET text == fs.files[blocked[i]]
        rest == SubSeq(code_blocks[i], Len(FILE_HEADER) + 1,
                       Len(code_blocks[i]))
        path == Head(readlines(rest))
    IN  /\ startswith(code_blocks[i], FILE_HEADER)
        /\ os_path_normpath(SubSeq(path, 1, Len(path) - 1)) = blocked[i]
        /\ SubSeq(rest, Len(path) + 1, Len(rest)) =
              FENCE_PYTHON \o <<"\n">> \o text \o <<"\n">> \o FENCE \o <<"\n">>

CodeReturned ==
    call.op = "generate_code_blocks" /\ pc = "done" /\ IsDir(call.directory)

\* C8: the blocks are exactly the .py files under the root, one block each,
\* in traversal order, whatever the ignore file says; each block names its
\* file and holds its text; no other file has a block.
C8_EverySourceFileOneBlock ==
    CodeReturned =>
        /\ blocked = OnlySources(WalkedFiles(TreeRoot))
        /\ Len(code_blocks) = Len(blocked)
        /\ \A i \in 1..Len(blocked) : BlockHoldsFile(i)
        /\ result.value = join(<<"\n">>, code_blocks)

\* C8's case: a finished concatenation with a block for a .py file that the
\* ignore file matches, while a file without the suffix has no block
C8_Witness ==
    /\ CodeReturned
    /\ \E i \in 1..Len(blocked) : is_ignored(blocked[i], ProjectPatterns)
    /\ \E f \in DOMAIN fs.files :
          /\ Below(f, TreeRoot)
          /\ ~endswith(f, PY_SUFFIX)
          /\ \A i \in 1..Len(blocked) : blocked[i] # f

(***************************************************************************)
(* save_tree_structure, save_code_blocks and the loads.                    *)
(***************************************************************************)
ExistsIn(f, p) ==
    os_path_normpath(p) \in (DOMAIN f.dirs) \cup (DOMAIN f.files)

\* lines 29-30 and 89-90: if not os.path.exists("./data"): os.makedirs("./data")
ensure_directory(f, file_path) ==
    IF ~ExistsIn(f, DATA_DIR) THEN os_makedirs(f, DATA_DIR) ELSE f

\* the content and the path a save works with: the arguments, or the
\* freshly generated text and the default path
content_of_save == IF call.content = None THEN result.value ELSE call.content
tree_path == IF call.file_path = None THEN TREE_FILE ELSE call.file_path
code_path == IF call.file_path = None THEN CODE_FILE ELSE call.file_path

\* where a finished write continues: back to the caller of the save, or on
\* with the command line's reindex
after_tree_write == IF call.op = "main" THEN "code_begin" ELSE "done"
after_code_write == IF call.op = "main" THEN "print_saved" ELSE "done"

\* lines 29-34 and 89-94: the directory check, open(file_path, "w"), write
\* and return; open() raises when file_path's directory is missing
Write(content, file_path, next) ==
    LET made == ensure_directory(fs, file_path)
    IN  IF CanOpenForWrite(made, file_path)
        THEN /\ fs' = write_file(made, file_path, content)
             /\ result' = Ok(<<content, file_path>>)
             /\ saved' = Extend(saved, os_path_normpath(file_path), content)
             /\ pc' = next
        ELSE /\ fs' = made
             /\ result' = Raised(FileNotFoundError)
             /\ saved' = saved
             /\ pc' = "raised"

TreeWrite ==
    /\ pc = "tree_write"
    /\ Write(content_of_save, tree_path, after_tree_write)
    /\ UNCHANGED <<call, ignore_patterns, walk, tree, shown, code_blocks,
                   blocked, out, chats>>

CodeWrite ==
    /\ pc = "code_write"
    /\ Write(content_of_save, code_path, after_code_write)
    /\ UNCHANGED <<call, ignore_patterns, walk, tree, shown, code_blocks,
                   blocked, out, chats>>

\* load(path): the full prior content verbatim, or a not-found error
load_tree_structure(f, file_path) ==
    IF os_path_normpath(file_path) \in DOMAIN f.files
    THEN Ok(f.files[os_path_normpath(file_path)])
    ELSE Raised(FileNotFoundError)

load_code_blocks(f, file_path) ==
    IF os_path_normpath(file_path) \in DOMAIN f.files
    THEN Ok(f.files[os_path_normpath(file_path)])
    ELSE Raised(FileNotFoundError)

(***************************************************************************)
(* Saves and loads called one after another with explicit arguments.       *)
(***************************************************************************)
OUT_DIR == <<".", "/", "o", "u", "t">>
OUT_FILE == OUT_DIR \o <<"/", "t", ".", "m", "d">>
SavePaths == {TREE_FILE, OUT_FILE, t_md}
SaveContents == {<<>>, <<"x", "\n">>}

EmptyDir ==
    [dirs |-> [d \in {Dot} |-> [dirs |-> <<>>, files |-> <<>>]],
     files |-> <<>>]

\* the working directory with or without ./data and ./out
SaveDirs ==
    {EmptyDir, os_makedirs(EmptyDir, DATA_DIR), os_makedirs(EmptyDir, OUT_DIR),
     os_makedirs(os_makedirs(EmptyDir, DATA_DIR), OUT_DIR)}

InitSave ==
    /\ fs \in SaveDirs
    /\ call = NoCall
    /\ pc = "idle"
    /\ Idle

Returned == pc \in {"idle", "done", "raised"}

\* a caller invokes save_tree_structure(content, file_path)
SaveTreeCall ==
    /\ Returned
    /\ \E c \in SaveContents, p \in SavePaths :
          call' = [NoCall EXCEPT !.op = "save_tree_structure", !.content = c,
                                 !.file_path = p]
    /\ pc' = "tree_write"
    /\ result' = NoResult
    /\ UNCHANGED <<fs, ignore_patterns, walk, tree, shown, code_blocks,
                   blocked, saved, out, chats>>

\* a caller invokes save_code_blocks(content, file_path)
SaveCodeCall ==
    /\ Returned
    /\ \E c \in SaveContents, p \in SavePaths :
          call' = [NoCall EXCEPT !.op = "save_code_blocks", !.content = c,
                                 !.file_path = p]
    /\ pc' = "code_write"
    /\ result' = NoResult
    /\ UNCHANGED <<fs, ignore_patterns, walk, tree, shown, code_blocks,
                   blocked, saved, out, chats>>

\* a caller invokes one of the loads on a path
LoadCall ==
    /\ Returned
    /\ \E p \in SavePaths, op \in {"load_tree_structure", "load_code_blocks"} :
          /\ call' = [NoCall EXCEPT !.op = op, !.file_path = p]
          /\ result' = IF op = "load_tree_structure"
                       THEN load_tree_structure(fs, p)
                       ELSE load_code_blocks(fs, p)
          /\ pc' = IF result'.status = "ok" THEN "done" ELSE "raised"
    /\ UNCHANGED <<fs, ignore_patterns, walk, tree, shown, code_blocks,
                   blocked, saved, out, chats>>

NextSave == SaveTreeCall \/ SaveCodeCall \/ TreeWrite \/ CodeWrite \/ LoadCall

SpecSave == InitSave /\ [][NextSave]_vars

IsLoad == call.op \in {"load_tree_structure", "load_code_blocks"}
IsSave == call.op \in {"save_tree_structure", "save_code_blocks"}
SavedPath == os_path_normpath(call.file_path)

\* C2: a load of a path returns the content of the most recent save that
\* was made to that path, the empty text included; and a save to a snapshot
\* path under ./data always completes, so that its content is what a load
\* returns next.
C2_LoadReturnsLastSave ==
    /\ (IsLoad /\ Returned /\ SavedPath \in DOMAIN saved) =>
          result = Ok(saved[SavedPath])
    /\ (IsSave /\ Returned /\ ParentOf(SavedPath) = os_path_normpath(DATA_DIR)) =>
          /\ pc = "done"
          /\ saved[SavedPath] = call.content
          /\ load_tree_structure(fs, call.file_path) = Ok(call.content)
          /\ load_code_blocks(fs, call.file_path) = Ok(call.content)

\* C2's case: a load returned the empty text last saved to its path, while
\* another path holds a saved snapshot of its own
C2_Witness ==
    /\ IsLoad /\ pc = "done"
    /\ SavedPath \in DOMAIN saved
    /\ result.value = <<>>
    /\ \E p \in SavePaths : p # call.file_path /\ os_path_normpath(p) \in DOMAIN saved

\* C3 as stated: every save makes sure the directory of its path exists,
\* succeeds, leaves exactly the content in the file and returns the pair
\* (content, path), also when the path's directory is not ./data.
C3_SaveCreatesParentAndWrites ==
    (IsSave /\ Returned) =>
        /\ result = Ok(<<call.content, call.file_path>>)
        /\ IsDir(ParentOf(SavedPath))
        /\ IsFile(call.file_path)
        /\ fs.files[SavedPath] = call.content

(***************************************************************************)
(* The command line: aias.py's main block and chat_with_gpt.               *)
(***************************************************************************)
\* the reindex block left out
after_parse_args_no_reindex(reindex) == "after_reindex"

\* lines 29-30: where the run goes first
after_parse_args(reindex) == IF reindex THEN "tree_begin" ELSE "after_reindex"

\* lines 33, 38: what follows the reindex block
after_reindex(output) == IF output THEN "output" ELSE "chat"

CHAT_LOG ==
    DATA_DIR \o <<"/", "c", "h", "a", "t", ".", "l", "o", "g">>
LOG_LINE == <<"{", "}", "\n">>

\* aias.py line 5 imports chat_gpt, whose lines 15-17 open ./data/chat.log
\* for appending: the file is created when missing, and open() raises when
\* ./data is missing
Import ==
    /\ pc = "import"
    /\ IF os_path_normpath(DATA_DIR) \in DOMAIN fs.dirs
       THEN /\ fs' = IF ExistsIn(fs, CHAT_LOG) THEN fs
                      ELSE write_file(fs, CHAT_LOG, <<>>)
            /\ result' = result
            /\ pc' = "main"
       ELSE /\ fs' = fs
            /\ result' = Raised(FileNotFoundError)
            /\ pc' = "raised"
    /\ UNCHANGED <<call, ignore_patterns, walk, tree, shown, code_blocks,
                   blocked, saved, out, chats>>

MainStart ==
    /\ pc = "main"
    /\ pc' = after_parse_args(call.reindex)
    /\ UNCHANGED <<fs, call, ignore_patterns, walk, tree, shown, code_blocks,
                   blocked, result, saved, out, chats>>

\* line 31: reindex() has returned and the paths are printed
PrintSaved ==
    /\ pc = "print_saved"
    /\ out' = Append(out, [kind |-> "saved", tree |-> TREE_FILE,
                           code |-> CODE_FILE])
    /\ pc' = "after_reindex"
    /\ UNCHANGED <<fs, call, ignore_patterns, walk, tree, shown, code_blocks,
                   blocked, result, saved, chats>>

Branch ==
    /\ pc = "after_reindex"
    /\ pc' = after_reindex(call.output)
    /\ UNCHANGED <<fs, call, ignore_patterns, walk, tree, shown, code_blocks,
                   blocked, result, saved, out, chats>>

\* lines 34-36: both snapshots are loaded and printed
Output ==
    /\ pc = "output"
    /\ LET tree_structure == load_tree_structure(fs, TREE_FILE)
           blocks == load_code_blocks(fs, CODE_FILE)
       IN  IF tree_structure.status = "ok" /\ blocks.status = "ok"
           THEN /\ out' = Append(out, [kind |-> "snapshots",
                                       tree |-> tree_structure.value,
                                       code |-> blocks.value])
                /\ result' = Ok(None)
                /\ pc' = "done"
           ELSE /\ out' = out
                /\ result' = Raised(FileNotFoundError)
                /\ pc' = "raised"
    /\ UNCHANGED <<fs, call, ignore_patterns, walk, tree, shown, code_blocks,
                   blocked, saved, chats>>

\* lines 39-53 and chat_gpt.py 20-86: the input is read, chat_with_gpt loads
\* both snapshots and calls the chat collaborator, which answers (the
\* exchange is logged) or fails
Chat ==
    /\ pc = "chat"
    /\ LET tree_structure == load_tree_structure(fs, TREE_FILE)
           blocks == load_code_blocks(fs, CODE_FILE)
       IN  IF tree_structure.status = "ok" /\ blocks.status = "ok"
           THEN /\ chats' = Append(chats, [tree_structure |-> tree_structure.value,
                                           code_blocks |-> blocks.value])
                /\ \E answered \in BOOLEAN :
                      IF answered
                      THEN /\ out' = Append(out, [kind |-> "chat", tree |-> None,
                                                  code |-> None])
                           /\ fs' = [fs EXCEPT
                                       !.files[os_path_normpath(CHAT_LOG)] =
                                           @ \o LOG_LINE]
                           /\ result' = Ok(None)
                           /\ pc' = "done"
                      ELSE /\ out' = out
                           /\ fs' = fs
                           /\ result' = Raised(<<"CollaboratorError">>)
                           /\ pc' = "raised"
           ELSE /\ chats' = chats
                /\ out' = out
                /\ fs' = fs
                /\ result' = Raised(FileNotFoundError)
                /\ pc' = "raised"
    /\ UNCHANGED <<call, ignore_patterns, walk, tree, shown, code_blocks,
                   blocked, saved>>

\* the snapshot text of an earlier run
OLD == <<"o", "l", "d">>

WithOldSnapshots(f) ==
    write_file(write_file(os_makedirs(f, DATA_DIR), TREE_FILE, OLD),
               CODE_FILE, OLD)

\* a project without ./data, with an empty ./data, or with the snapshots
\* of an earlier run in ./data
MainProjects ==
    LET fresh == {Project("chain", tf, <<a_py>>, g) :
                     tf \in FileLists, g \in IgnoreTexts}
    IN  fresh \cup {os_makedirs(f, DATA_DIR) : f \in fresh}
              \cup {WithOldSnapshots(f) : f \in fresh}

\* the flags, and the defaults of generate_tree_structure and
\* generate_code_blocks that reindex() relies on
MainCalls ==
    {[NoCall EXCEPT !.op = "main", !.directory = Dot, !.gitignore = GITIGNORE,
                    !.reindex = r, !.output = o] : r, o \in BOOLEAN}

InitMain ==
    /\ fs \in MainProjects
    /\ call \in MainCalls
    /\ pc = "import"
    /\ Idle

NextMain ==
    \/ Import \/ MainStart
    \/ TreeBegin \/ TreeVisit \/ TreeEnd \/ TreeWrite
    \/ CodeBegin \/ CodeVisit \/ CodeEnd \/ CodeWrite
    \/ PrintSaved \/ Branch \/ Output \/ Chat

\* one run of the command line
SpecMain == InitMain /\ [][NextMain]_vars

FreshTree == join(<<"\n">>, tree)
FreshCode == join(<<"\n">>, code_blocks)
BothSaved ==
    /\ os_path_normpath(TREE_FILE) \in DOMAIN saved
    /\ os_path_normpath(CODE_FILE) \in DOMAIN saved
    /\ saved[os_path_normpath(TREE_FILE)] = FreshTree
    /\ saved[os_path_normpath(CODE_FILE)] = FreshCode

\* C9: with --output no chat call is made and a finished run has printed
\* both snapshot files; with --reindex both snapshots are built and saved
\* before the run loads either, so that what --output prints, or what the
\* chat turn is given, is the freshly built pair.
C9_ReindexThenOutputOrChat ==
    /\ call.output => chats = <<>>
    /\ call.output /\ pc = "done" =>
          /\ out # <<>>
          /\ out[Len(out)] = [kind |-> "snapshots",
                              tree |-> fs.files[os_path_normpath(TREE_FILE)],
                              code |-> fs.files[os_path_normpath(CODE_FILE)]]
    /\ call.reindex /\ pc \in {"after_reindex", "output", "chat"} => BothSaved
    /\ call.reindex /\ call.output /\ pc = "done" =>
          /\ out[Len(out)].tree = FreshTree
          /\ out[Len(out)].code = FreshCode
    /\ call.reindex /\ chats # <<>> =>
          /\ ~call.output
          /\ BothSaved
          /\ chats = <<[tree_structure |-> FreshTree, code_blocks |-> FreshCode]>>
    /\ ~call.output /\ pc = "done" => Len(chats) = 1

\* C9's case: a run with --reindex and --output over a project that held
\* older snapshots has printed the freshly built ones
C9_Witness ==
    /\ call.reindex /\ call.output /\ pc = "done"
    /\ out[Len(out)].tree = FreshTree
    /\ out[Len(out)].tree # OLD
    /\ Len(tree) > 1
    /\ Len(code_blocks) > 1

\* C9's other case: a run with --reindex alone has made its chat call with
\* the freshly built snapshots
C9_ChatCase ==
    /\ call.reindex /\ ~call.output /\ pc = "done"
    /\ chats = <<[tree_structure |-> FreshTree, code_blocks |-> FreshCode]>>
    /\ Len(tree) > 1

====
